---- MODULE Spec2Model ----
(***************************************************************************)
(* ExamSync offline reconciler (routes/offline-sync.js) over the SQLite    *)
(* tables of config/database.js.  Every request is a process whose steps   *)
(* are the SQL statements it awaits; the JavaScript between two awaits is  *)
(* folded into the step of the statement that follows it.                  *)
(***************************************************************************)
EXTENDS Integers, Sequences, FiniteSets, TLC

\* ------------------------------------------------------------------ bounds
MaxRequests == 2      \* requests started in one behaviour
MaxBatch == 2         \* length of the changes array of one /sync call
MaxClock == 1         \* largest value Date.now() takes
MaxExams == 2         \* rows ever inserted into the exams table
MaxNotifications == 2 \* rows ever inserted into the notifications table
MaxString == 7        \* length of the string simpleHash is given

\* ------------------------------------------------------------- text values
\* SQLite compares TEXT values bytewise (BINARY collation); a text is the
\* sequence of its character codes.
Digit(d) == 48 + d
Colon == 58
Dash == 45
Space == 32

RECURSIVE TextLess(_, _)
TextLess(a, b) ==
  IF b = <<>> THEN FALSE
  ELSE IF a = <<>> THEN TRUE
  ELSE IF Head(a) # Head(b) THEN Head(a) < Head(b)
  ELSE TextLess(Tail(a), Tail(b))

TextLeq(a, b) == a = b \/ TextLess(a, b)

\* A time of day is kept as minutes after midnight; the column holds 'HH:MM'.
TimeText(t) ==
  << Digit((t \div 60) \div 10), Digit((t \div 60) % 10), Colon,
     Digit((t % 60) \div 10), Digit((t % 60) % 10) >>

\* datetime(time, '+' || duration || ' minutes'): a time-only value is taken
\* on 2000-01-01 and the result is rendered 'YYYY-MM-DD HH:MM:SS'.
SqliteDatetime(t, duration) ==
  LET total == t + duration
      day   == 1 + (total \div 1440)
      tod   == total % 1440
  IN << Digit(2), Digit(0), Digit(0), Digit(0), Dash, Digit(0), Digit(1), Dash,
        Digit(day \div 10), Digit(day % 10), Space >>
     \o TimeText(tod) \o << Colon, Digit(0), Digit(0) >>

\* ------------------------------------------------------------------- users
Users == {1, 2}
Student == 3
Role(u) == IF u = 2 THEN "admin" ELSE IF u = Student THEN "student" ELSE "lecturer"
Actors == Users \cup { Student }

\* --------------------------------------------------------- request inputs
Undefined == 0               \* an absent id
NoStatus == "undefined"      \* an absent status
Date1 == "2024-12-15"

ExamData(id, code, time, venue, duration, status) ==
  [ undef |-> FALSE, id |-> id, course_code |-> code, date |-> Date1,
    time |-> time, venue |-> venue, duration |-> duration, status |-> status,
    conflicts |-> <<>> ]

\* req.body.modifiedData when the body has no such member
UndefinedData ==
  [ undef |-> TRUE, id |-> Undefined, course_code |-> "", date |-> "",
    time |-> 0, venue |-> "", duration |-> 0, status |-> NoStatus,
    conflicts |-> <<>> ]

\* data of a delete or of a notification change: only the id is present
IdData(id) == [ UndefinedData EXCEPT !.undef = FALSE, !.id = id ]

DataA == ExamData(Undefined, "CS101", 540, "Room 101", 120, NoStatus)  \* 09:00-11:00
DataB == ExamData(Undefined, "CS102", 600, "Room 101", 60, NoStatus)   \* 10:00-11:00
DataD == ExamData(Undefined, "CS104", 1320, "Room 101", 60, NoStatus)  \* 22:00-23:00
DataU == ExamData(1, "CS101", 600, "Room 202", 60, "upcoming")
DataE == ExamData(Undefined, "CS105", 660, "Room 101", 60, NoStatus)   \* 11:00-12:00
DataF == ExamData(Undefined, "CS106", 600, "Room 202", 60, NoStatus)   \* 10:00-11:00
Date2 == "2024-12-16"
DataH == [ DataA EXCEPT !.date = Date2 ]

Change(n, type, action, data) ==
  [ isNull |-> FALSE, id |-> <<"c", n>>, type |-> type, action |-> action,
    data |-> data ]
NullChange ==
  [ isNull |-> TRUE, id |-> <<"c", 0>>, type |-> "", action |-> "",
    data |-> UndefinedData ]

\* exam.create changes: B overlaps A in the same room, D is in the same room
\* later in the day
CreateChanges ==
  { Change(1, "exam", "create", DataA),
    Change(2, "exam", "create", DataB),
    Change(4, "exam", "create", DataD) }

\* changes of the other kinds the dispatch distinguishes
OtherChanges ==
  { Change(5, "exam", "update", DataU),
    Change(6, "exam", "delete", IdData(1)),
    Change(10, "grade", "create", DataA),
    NullChange }

NotificationChanges ==
  { Change(7, "notification", "mark_read", IdData(1)),
    Change(8, "notification", "delete", IdData(1)),
    Change(9, "exam", "archive", IdData(1)) }

RECURSIVE SeqsUpTo(_, _)
SeqsUpTo(S, n) ==
  IF n = 0 THEN { <<>> }
  ELSE LET shorter == SeqsUpTo(S, n - 1)
       IN shorter \cup { Append(q, x) : q \in shorter, x \in S }

\* batches of creates, and batches that mix one create with the other kinds
CreateBatches == SeqsUpTo(CreateChanges, MaxBatch)
MixedBatches == SeqsUpTo(OtherChanges \cup { Change(1, "exam", "create", DataA) }, MaxBatch)

\* exams tables for the conflict routes: rows written by POST /api/exams
\* (status 'upcoming') and moved on by POST /api/exams/bulk/status
DetectDatas == { DataA, DataB, DataE, DataF, DataH }
DetectRows ==
  { [ data |-> d, status |-> "upcoming" ] : d \in DetectDatas }
    \cup { [ data |-> DataB, status |-> "completed" ],
           [ data |-> DataF, status |-> "cancelled" ] }
DetectRowSeqs == SeqsUpTo(DetectRows, MaxExams)

\* the /sync batch run against these tables: one create, 09:00-11:00
DetectBatches == { << Change(1, "exam", "create", DataA) >> }

\* bodies of POST /api/exams/check-conflicts
CheckBodies == DetectDatas \cup { UndefinedData }

\* changes whose type or action no case of the dispatch names, and a create
DispatchChanges ==
  { Change(10, "grade", "create", DataA),
    Change(9, "exam", "archive", IdData(1)),
    Change(11, "notification", "archive", IdData(1)),
    Change(1, "exam", "create", DataA) }
DispatchBatches == SeqsUpTo(DispatchChanges, MaxBatch)

\* serialised snapshots: strings over the characters { " e
HashChars == { 123, 34, 101 }
DataStrings == SeqsUpTo(HashChars, MaxString)

\* bodies of POST /api/exams, and the /sync batches run next to them
DirectBodies == { DataA, DataB, UndefinedData }
DirectBatches == { << Change(1, "exam", "create", DataA) >> }

GeneratedId(t) == <<"exam_create", t>>
ChangeIds == { <<"c", 2>> } \cup { GeneratedId(t) : t \in 0..MaxClock }
Resolutions == { "accept", "modify", "reject", "keep" }
ModifiedDatas == { DataA, DataD }

\* --------------------------------------------------------------- the state
VARIABLES exams, lastExamId, pending, notifications, lastNotificationId,
          now, req, started

vars == << exams, lastExamId, pending, notifications, lastNotificationId,
           now, req, started >>

Reqs == {1, 2}

IdleReq ==
  [ kind |-> "none", user |-> 0, deviceId |-> "", pc |-> "idle",
    changes |-> <<>>, idx |-> 0, change |-> NullChange,
    timeConflicts |-> {}, conflicts |-> <<>>, pendingId |-> <<"", 0>>,
    createdAt |-> 0, existingExam |-> {},
    successful |-> <<>>, failed |-> <<>>, conflictsOut |-> <<>>,
    total |-> 0, processed |-> 0, nSuccessful |-> 0, nFailed |-> 0,
    nConflicts |-> 0,
    changeId |-> <<"", 0>>, resolution |-> "", modifiedData |-> UndefinedData,
    pendingChange |-> {}, result |-> <<>>, status |-> 0,
    body |-> UndefinedData, excludeId |-> Undefined, report |-> {},
    dataString |-> <<>>, version |-> <<>> ]

Init ==
  /\ exams = {}
  /\ lastExamId = 0
  /\ pending = {}
  /\ notifications = {}
  /\ lastNotificationId = 0
  /\ now = 0
  /\ req = [ r \in Reqs |-> IdleReq ]
  /\ started = 0

\* ---------------------------------------------------------- SQL statements
ExamStatuses == { "upcoming", "ongoing", "completed", "cancelled" }
NotificationTypes == { "reminder", "warning", "success", "info" }

ExamRow(id, d, status, userId) ==
  [ id |-> id, course_code |-> d.course_code, date |-> d.date, time |-> d.time,
    venue |-> d.venue, duration |-> d.duration, status |-> status,
    created_by |-> userId ]

\* NOT NULL and CHECK constraints of the exams table
ExamConstraintsOk(row) ==
  /\ row.course_code # "" /\ row.date # "" /\ row.venue # ""
  /\ row.duration > 0
  /\ row.status \in ExamStatuses \cup { NoStatus }   \* a NULL passes the CHECK

InsertExam(tbl, id, d, userId) ==
  tbl \cup { ExamRow(id, d, IF d.status = NoStatus THEN "upcoming" ELSE d.status, userId) }

SelectExam(tbl, id) == { e \in tbl : e.id = id }

UpdateExam(tbl, d) ==
  { IF e.id = d.id THEN ExamRow(e.id, d, d.status, e.created_by) ELSE e : e \in tbl }

DeleteExam(tbl, id) == { e \in tbl : e.id # id }

\* the WHERE clause shared by both queries of checkExamConflicts
SqlTimeClause(e, d) ==
  \/ /\ TextLeq(TimeText(e.time), TimeText(d.time))
     /\ TextLess(TimeText(d.time), SqliteDatetime(e.time, e.duration))
  \/ /\ TextLeq(TimeText(d.time), TimeText(e.time))
     /\ TextLess(TimeText(e.time), SqliteDatetime(d.time, d.duration))

\* variant: the first query without its status condition
TimeConflictRows_anyStatus(tbl, d) ==
  { e.id : e \in { x \in tbl : x.date = d.date /\ SqlTimeClause(x, d) } }

TimeConflictRows(tbl, d) ==
  { e.id : e \in { x \in tbl : x.date = d.date /\ SqlTimeClause(x, d)
                                 /\ x.status = "upcoming" } }

VenueConflictRows(tbl, d) ==
  { e.id : e \in { x \in tbl : x.date = d.date /\ x.venue = d.venue
                                 /\ x.status = "upcoming" /\ SqlTimeClause(x, d) } }

\* the conflicts array checkExamConflicts returns
ConflictList(timeRows, venueRows) ==
  (IF timeRows # {}
     THEN << [ type |-> "time_overlap", severity |-> "high", conflictingExams |-> timeRows ] >>
     ELSE <<>>)
  \o
  (IF venueRows # {}
     THEN << [ type |-> "venue_conflict", severity |-> "high", conflictingExams |-> venueRows ] >>
     ELSE <<>>)

JSONStringify(d) == << "json", d >>
JSONParse(t) == t[2]

PendingRow(changeData) ==
  [ change_id |-> changeData.id, change_type |-> changeData.type,
    change_action |-> changeData.action,
    change_data |-> JSONStringify(changeData.data),
    user_id |-> changeData.userId, device_id |-> changeData.deviceId,
    created_at |-> changeData.created_at ]

\* variant: a plain INSERT into a table without the UNIQUE constraint
Replaced_none(tbl, changeId) == {}

\* the rows OR REPLACE deletes: those that hold the new row's change_id
\* (change_id TEXT UNIQUE NOT NULL)
Replaced(tbl, changeId) == { p \in tbl : p.change_id = changeId }

\* variant: the statement is never issued
storePendingChange_dropped(tbl, changeData) == tbl

\* INSERT OR REPLACE under the UNIQUE constraint on change_id
storePendingChange(tbl, changeData) ==
  (tbl \ Replaced(tbl, changeData.id)) \cup { PendingRow(changeData) }

\* variant: the lookup forgets the user_id condition
SelectPending_anyUser(tbl, changeId, userId) ==
  { p \in tbl : p.change_id = changeId }

SelectPending(tbl, changeId, userId) ==
  { p \in tbl : p.change_id = changeId /\ p.user_id = userId }

\* GET /pending-changes: the rows of one user, change_data parsed
ListPendingChanges(tbl, userId) ==
  { [ p EXCEPT !.change_data = JSONParse(p.change_data) ] :
      p \in { x \in tbl : x.user_id = userId } }

\* variant: the DELETE matches no row
DeletePending_none(tbl, changeId) == tbl

DeletePending(tbl, changeId) == { p \in tbl : p.change_id # changeId }

MarkNotificationRead(tbl, id, userId) ==
  { IF n.id = id /\ n.user_id = userId THEN [ n EXCEPT !.is_read = TRUE ] ELSE n
    : n \in tbl }

\* variant: the DELETE without its user_id condition
DeleteNotification_anyUser(tbl, id, userId) == { n \in tbl : n.id # id }

DeleteNotification(tbl, id, userId) ==
  { n \in tbl : ~ (n.id = id /\ n.user_id = userId) }

\* NOT NULL and CHECK constraints of the notifications table
NotificationConstraintsOk(row) ==
  /\ row.title # "null" /\ row.message # "null"
  /\ row.type \in NotificationTypes

\* createNotification(userId, title, message, type)
NotificationRow(id, userId, title, message, type) ==
  [ id |-> id, user_id |-> userId, title |-> title, message |-> message,
    type |-> type, is_read |-> FALSE ]

\* ------------------------------------------- ConflictDetector (exams route)
JsDate(time) == time * 60000

\* variant: closed intervals
timeOverlap_closed(examStart, examEnd, existingStart, existingEnd) ==
  examStart <= existingEnd /\ examEnd >= existingStart

\* the time-overlap test of two [start, end) pairs of millisecond values
timeOverlap(examStart, examEnd, existingStart, existingEnd) ==
  examStart < existingEnd /\ examEnd > existingStart

venueConflict(exam, d) == exam.venue = d.venue

\* variant: every venue match is an error
Classify_venueIsError(overlap, venue) ==
  IF overlap /\ venue THEN [ conflictType |-> "both", severity |-> "error" ]
  ELSE IF venue THEN [ conflictType |-> "venue_conflict", severity |-> "error" ]
  ELSE [ conflictType |-> "time_overlap", severity |-> "warning" ]

\* conflictType and severity of a pair that is reported
Classify(overlap, venue) ==
  IF overlap /\ venue THEN [ conflictType |-> "both", severity |-> "error" ]
  ELSE IF venue THEN [ conflictType |-> "venue_conflict", severity |-> "warning" ]
  ELSE [ conflictType |-> "time_overlap", severity |-> "warning" ]

ConflictEntry(exam, d) ==
  LET examStart == JsDate(d.time)
      examEnd == examStart + d.duration * 60000
      existingStart == JsDate(exam.time)
      existingEnd == existingStart + exam.duration * 60000
      overlap == timeOverlap(examStart, examEnd, existingStart, existingEnd)
      venue == venueConflict(exam, d)
  IN IF ~ (overlap \/ venue) THEN <<>>
     ELSE << [ id |-> exam.id,
               conflictType |-> Classify(overlap, venue).conflictType,
               severity |-> Classify(overlap, venue).severity ] >>

\* variant: the query without the e.id != ? condition
PotentialConflicts_noExclude(tbl, d, excludeId) ==
  { e \in tbl : e.date = d.date /\ e.status = "upcoming" }

\* the rows conflictQuery returns; excludeId is used only when it is truthy
PotentialConflicts(tbl, d, excludeId) ==
  { e \in tbl : /\ e.date = d.date
                /\ e.status = "upcoming"
                /\ (excludeId = Undefined \/ e.id # excludeId) }

RECURSIVE DetectFrom(_, _, _, _)
DetectFrom(tbl, d, excludeId, id) ==
  IF id > lastExamId THEN <<>>
  ELSE LET rows == { e \in PotentialConflicts(tbl, d, excludeId) : e.id = id }
       IN (IF rows = {} THEN <<>> ELSE ConflictEntry(CHOOSE e \in rows : TRUE, d))
          \o DetectFrom(tbl, d, excludeId, id + 1)

Detect(tbl, d, excludeId) == DetectFrom(tbl, d, excludeId, 1)

\* GET /conflicts/all: the rows of allExams, and one entry for every pair
\* i < j of them on one date whose times overlap
AllExams(tbl) == { e \in tbl : e.status = "upcoming" }

\* variant: two rows of one venue are reported whatever their times
PairEntry_venueAlways(exam1, exam2) ==
  IF exam1.venue = exam2.venue
    THEN { [ exams |-> { exam1.id, exam2.id }, conflictType |-> "both",
             date |-> exam1.date, severity |-> "error" ] }
  ELSE IF timeOverlap(JsDate(exam1.time), JsDate(exam1.time) + exam1.duration * 60000,
                      JsDate(exam2.time), JsDate(exam2.time) + exam2.duration * 60000)
    THEN { [ exams |-> { exam1.id, exam2.id }, conflictType |-> "time_overlap",
             date |-> exam1.date, severity |-> "warning" ] }
  ELSE {}

PairEntry(exam1, exam2) ==
  LET start1 == JsDate(exam1.time)
      end1 == start1 + exam1.duration * 60000
      start2 == JsDate(exam2.time)
      end2 == start2 + exam2.duration * 60000
  IN IF start1 < end2 /\ end1 > start2
       THEN { [ exams |-> { exam1.id, exam2.id },
                conflictType |-> IF exam1.venue = exam2.venue THEN "both"
                                 ELSE "time_overlap",
                date |-> exam1.date,
                severity |-> IF exam1.venue = exam2.venue THEN "error"
                             ELSE "warning" ] }
       ELSE {}

\* exam1 is the earlier row of the ORDER BY; an entry names the two rows
\* without their order
DetectAll(tbl) ==
  UNION { PairEntry(pair[1], pair[2]) :
            pair \in { q \in AllExams(tbl) \X AllExams(tbl) :
                         q[1].id < q[2].id /\ q[1].date = q[2].date } }

\* ------------------------------------------------------ request bookkeeping
Idle(r) == req[r].pc \in { "idle", "done" }
Set(r, q) == req' = [ req EXCEPT ![r] = q ]

ClearLocals(q) ==
  [ q EXCEPT !.timeConflicts = {}, !.conflicts = <<>>, !.pendingId = <<"", 0>>,
             !.createdAt = 0, !.existingExam = {} ]

Respond(q, status) ==
  [ ClearLocals(q) EXCEPT !.pc = "done", !.status = status, !.change = NullChange ]

\* for (const change of changes): move to the next element or leave the loop
\* variant: the loop ends after the first item
NextItem_stopsEarly(q) ==
  IF q.idx < 1 /\ Len(q.changes) > 0
    THEN [ q EXCEPT !.idx = 1, !.change = q.changes[1], !.pc = "item" ]
    ELSE [ q EXCEPT !.pc = "notify", !.change = NullChange ]

\* for (const change of changes): the next item, or the end of the loop
NextItem(q) ==
  IF q.idx < Len(q.changes)
    THEN [ q EXCEPT !.idx = @ + 1, !.change = q.changes[q.idx + 1], !.pc = "item" ]
    ELSE [ q EXCEPT !.pc = "notify", !.change = NullChange ]

Result(changeId, action, examId, conflicts) ==
  [ changeId |-> changeId, action |-> action, examId |-> examId,
    conflicts |-> conflicts ]

\* variant: results are collected newest first
ItemReturn_prepend(q, res) ==
  IF q.kind = "sync"
    THEN NextItem([ ClearLocals(q) EXCEPT !.successful = << res >> \o @,
                                          !.nSuccessful = @ + 1,
                                          !.processed = @ + 1 ])
    ELSE [ ClearLocals(q) EXCEPT !.result = << res >>, !.pc = "resolve_delete" ]

\* processOfflineChange returned res to its caller
ItemReturn(q, res) ==
  IF q.kind = "sync"
    THEN NextItem([ ClearLocals(q) EXCEPT !.successful = Append(@, res),
                                          !.nSuccessful = @ + 1,
                                          !.processed = @ + 1 ])
    ELSE [ ClearLocals(q) EXCEPT !.result = << res >>, !.pc = "resolve_delete" ]

\* variant: the first error ends the request
ItemThrow_abort(q, msg) == Respond(q, 500)

\* processOfflineChange threw an Error with message msg
ItemThrow(q, msg) ==
  IF q.kind = "sync"
    THEN IF q.change.isNull
           THEN Respond(q, 500)   \* change.id of null throws inside the catch block
           ELSE NextItem([ ClearLocals(q) EXCEPT
                             !.failed = Append(@, [ changeId |-> q.change.id,
                                                    error |-> msg,
                                                    change |-> q.change ]),
                             !.nFailed = @ + 1,
                             !.processed = @ + 1 ])
    ELSE Respond(q, 500)

DbUnchanged == UNCHANGED << exams, lastExamId, pending, notifications, lastNotificationId >>

\* --------------------------------------------------------------- POST /sync
\* the exam.create items of a batch
Creates(changes) ==
  { i \in 1..Len(changes) : /\ ~ changes[i].isNull
                            /\ changes[i].type = "exam"
                            /\ changes[i].action = "create" }

StartSync(r, u, changes) ==
  /\ Idle(r)
  /\ started < MaxRequests
  /\ lastExamId + Cardinality(Creates(changes)) <= MaxExams
  /\ started' = started + 1
  /\ Set(r, LET q == [ IdleReq EXCEPT !.kind = "sync", !.user = u,
                                       !.deviceId = "unknown",
                                       !.changes = changes, !.total = Len(changes) ]
            IN NextItem(q))
  /\ DbUnchanged /\ UNCHANGED now

\* changes is missing or is not an array
StartSyncNoArray(r, u) ==
  /\ Idle(r)
  /\ started < MaxRequests
  /\ started' = started + 1
  /\ Set(r, Respond([ IdleReq EXCEPT !.kind = "sync", !.user = u ], 400))
  /\ DbUnchanged /\ UNCHANGED now

\* the dispatch of processOfflineChange / processExamChange /
\* processNotificationChange throws before any statement is issued
DispatchError(c) ==
  IF c.isNull THEN << "TypeError", "" >>
  ELSE IF c.type \notin { "exam", "notification" } THEN << "Unknown change type", c.type >>
  ELSE IF c.type = "exam" /\ c.action \notin { "create", "update", "delete" }
    THEN << "Unknown exam action", c.action >>
  ELSE IF c.type = "notification" /\ c.action \notin { "mark_read", "delete" }
    THEN << "Unknown notification action", c.action >>
  ELSE IF c.data.undef THEN << "TypeError", "" >>
  ELSE << >>

ItemDispatchThrow(r) ==
  /\ req[r].pc = "item"
  /\ DispatchError(req[r].change) # << >>
  /\ Set(r, ItemThrow(req[r], DispatchError(req[r].change)))
  /\ DbUnchanged /\ UNCHANGED << now, started >>

IsItem(r, type, action) ==
  /\ req[r].pc = "item"
  /\ DispatchError(req[r].change) = << >>
  /\ req[r].change.type = type
  /\ req[r].change.action = action

\* checkExamConflicts, first query
CreateTimeQuery(r) ==
  /\ IsItem(r, "exam", "create")
  /\ Set(r, [ req[r] EXCEPT !.timeConflicts = TimeConflictRows(exams, req[r].change.data),
                            !.pc = "create_q2" ])
  /\ DbUnchanged /\ UNCHANGED << now, started >>

\* checkExamConflicts, second query, and the branch on conflicts.length.
\* Date.now() is read when the change is parked: the clock has then reached
\* some t not before its last reading.
CreateVenueQuery(r) ==
  /\ req[r].pc = "create_q2"
  /\ LET conflicts == ConflictList(req[r].timeConflicts,
                                   VenueConflictRows(exams, req[r].change.data))
     IN IF Len(conflicts) > 0
          THEN \E t \in now..MaxClock :
                 /\ now' = t
                 /\ Set(r, [ req[r] EXCEPT !.conflicts = conflicts,
                                           !.pendingId = GeneratedId(t),
                                           !.createdAt = t,
                                           !.pc = "create_store" ])
          ELSE /\ UNCHANGED now
               /\ Set(r, [ req[r] EXCEPT !.conflicts = conflicts, !.pc = "create_insert" ])
  /\ DbUnchanged /\ UNCHANGED started

PendingChangeData(q) ==
  [ id |-> q.pendingId, type |-> "exam", action |-> "create",
    data |-> [ q.change.data EXCEPT !.conflicts = q.conflicts ],
    userId |-> q.user, deviceId |-> q.deviceId, created_at |-> q.createdAt ]

CreateStorePending(r) ==
  /\ req[r].pc = "create_store"
  /\ pending' = storePendingChange(pending, PendingChangeData(req[r]))
  /\ Set(r, ItemReturn(req[r], Result(req[r].change.data.id, "pending_resolution",
                                      Undefined, req[r].conflicts)))
  /\ UNCHANGED << exams, lastExamId, notifications, lastNotificationId, now, started >>

\* variant: the INSERT is guarded by a fresh conflict check in the same step
CreateInsertExam_recheck(r) ==
  /\ req[r].pc = "create_insert"
  /\ LET d == req[r].change.data
     IN IF TimeConflictRows(exams, d) = {}
          THEN /\ exams' = InsertExam(exams, lastExamId + 1, d, req[r].user)
               /\ lastExamId' = lastExamId + 1
               /\ Set(r, ItemReturn(req[r], Result(d.id, "created", lastExamId + 1, <<>>)))
          ELSE /\ UNCHANGED << exams, lastExamId >>
               /\ Set(r, ItemThrow(req[r], << "Schedule conflict", "" >>))
  /\ UNCHANGED << pending, notifications, lastNotificationId, now, started >>

CreateInsertExam(r) ==
  /\ req[r].pc = "create_insert"
  /\ LET d == req[r].change.data
         tbl == InsertExam(exams, lastExamId + 1, d, req[r].user)
     IN IF \A row \in tbl \ exams : ExamConstraintsOk(row)
          THEN /\ exams' = tbl
               /\ lastExamId' = lastExamId + 1
               /\ Set(r, ItemReturn(req[r], Result(d.id, "created", lastExamId + 1, <<>>)))
          ELSE /\ UNCHANGED << exams, lastExamId >>
               /\ Set(r, ItemThrow(req[r], << "SQLITE_CONSTRAINT", "" >>))
  /\ UNCHANGED << pending, notifications, lastNotificationId, now, started >>

\* the ownership test of update and delete; req is not a binding of
\* processExamChange, so evaluating req.user.role throws a ReferenceError
OwnershipError(existingExam, userId) ==
  IF existingExam = {} THEN << "Exam not found", "" >>
  ELSE IF \E e \in existingExam : e.created_by # userId
    THEN << "req is not defined", "" >>
  ELSE << >>

UpdateGet(r) ==
  /\ IsItem(r, "exam", "update")
  /\ LET existingExam == SelectExam(exams, req[r].change.data.id)
         err == OwnershipError(existingExam, req[r].user)
     IN Set(r, IF err # << >> THEN ItemThrow(req[r], err)
               ELSE [ req[r] EXCEPT !.existingExam = existingExam, !.pc = "update_run" ])
  /\ DbUnchanged /\ UNCHANGED << now, started >>

UpdateRun(r) ==
  /\ req[r].pc = "update_run"
  /\ LET d == req[r].change.data
         tbl == UpdateExam(exams, d)
     IN IF \A row \in tbl \ exams : ExamConstraintsOk(row)
          THEN /\ exams' = tbl
               /\ Set(r, ItemReturn(req[r], Result(d.id, "updated", d.id, <<>>)))
          ELSE /\ UNCHANGED exams
               /\ Set(r, ItemThrow(req[r], << "SQLITE_CONSTRAINT", "" >>))
  /\ UNCHANGED << lastExamId, pending, notifications, lastNotificationId, now, started >>

DeleteGet(r) ==
  /\ IsItem(r, "exam", "delete")
  /\ LET examToDelete == SelectExam(exams, req[r].change.data.id)
         err == OwnershipError(examToDelete, req[r].user)
     IN Set(r, IF err # << >> THEN ItemThrow(req[r], err)
               ELSE [ req[r] EXCEPT !.existingExam = examToDelete, !.pc = "delete_run" ])
  /\ DbUnchanged /\ UNCHANGED << now, started >>

DeleteRun(r) ==
  /\ req[r].pc = "delete_run"
  /\ LET d == req[r].change.data
     IN /\ exams' = DeleteExam(exams, d.id)
        /\ Set(r, ItemReturn(req[r], Result(d.id, "deleted", d.id, <<>>)))
  /\ UNCHANGED << lastExamId, pending, notifications, lastNotificationId, now, started >>

NotificationMarkRead(r) ==
  /\ IsItem(r, "notification", "mark_read")
  /\ LET d == req[r].change.data
     IN /\ notifications' = MarkNotificationRead(notifications, d.id, req[r].user)
        /\ Set(r, ItemReturn(req[r], Result(d.id, "marked_read", Undefined, <<>>)))
  /\ UNCHANGED << exams, lastExamId, pending, lastNotificationId, now, started >>

NotificationDelete(r) ==
  /\ IsItem(r, "notification", "delete")
  /\ LET d == req[r].change.data
     IN /\ notifications' = DeleteNotification(notifications, d.id, req[r].user)
        /\ Set(r, ItemReturn(req[r], Result(d.id, "deleted", Undefined, <<>>)))
  /\ UNCHANGED << exams, lastExamId, pending, lastNotificationId, now, started >>

\* createNotification(userId, 'offline_sync', null, syncMessage): the third
\* argument is the message column and the fourth the type column
SyncNotificationRow(id, userId) ==
  NotificationRow(id, userId, "offline_sync", "null", "Offline sync completed")

SyncNotify(r) ==
  /\ req[r].pc = "notify"
  /\ LET row == SyncNotificationRow(lastNotificationId + 1, req[r].user)
     IN IF NotificationConstraintsOk(row)
          THEN /\ notifications' = notifications \cup { row }
               /\ lastNotificationId' = lastNotificationId + 1
               /\ Set(r, Respond(req[r], 200))
          ELSE /\ UNCHANGED << notifications, lastNotificationId >>
               /\ Set(r, Respond(req[r], 500))
  /\ UNCHANGED << exams, lastExamId, pending, now, started >>

\* ---------------------------------------------------------- POST /api/exams
requireLecturerOrAdmin(u) == Role(u) \in { "lecturer", "admin" }

validateExamData(body) ==
  /\ body.course_code # "" /\ body.date # "" /\ body.venue # ""
  /\ body.duration >= 30 /\ body.duration <= 300

\* the middlewares, then one INSERT; the row gets the default status
PostExam(r, u, body) ==
  /\ Idle(r)
  /\ lastExamId < MaxExams
  /\ LET q == [ IdleReq EXCEPT !.kind = "post_exam", !.user = u, !.body = body ]
     IN IF ~ requireLecturerOrAdmin(u)
          THEN /\ Set(r, Respond(q, 403)) /\ UNCHANGED << exams, lastExamId >>
        ELSE IF ~ validateExamData(body)
          THEN /\ Set(r, Respond(q, 400)) /\ UNCHANGED << exams, lastExamId >>
        ELSE /\ exams' = exams \cup { ExamRow(lastExamId + 1, body, "upcoming", u) }
             /\ lastExamId' = lastExamId + 1
             /\ Set(r, Respond(q, 201))
  /\ UNCHANGED << pending, notifications, lastNotificationId, now, started >>

\* ------------------------------------------------------------- simpleHash
\* A 32-bit integer is the pair << high, low >> of the 16-bit halves of its
\* two's-complement bits.
Half == 65536
Int32(hi, lo) == << hi % Half, lo % Half >>

\* hash << 5
ShiftLeft5(h) == Int32(h[1] * 32 + (h[2] * 32) \div Half, h[2] * 32)

\* a - b and a + char, brought back to 32 bits by hash & hash
Minus(a, b) ==
  Int32(a[1] - b[1] - (IF a[2] < b[2] THEN 1 ELSE 0) + Half, a[2] - b[2] + Half)
Plus(a, char) == Int32(a[1] + (a[2] + char) \div Half, a[2] + char)

\* the loop over str.charCodeAt(i)
RECURSIVE HashLoop(_, _, _)
HashLoop(str, i, hash) ==
  IF i > Len(str) THEN hash
  ELSE HashLoop(str, i + 1, Plus(Minus(ShiftLeft5(hash), hash), str[i]))

\* Number.prototype.toString(16)
HexDigit(d) == IF d < 10 THEN Digit(d) ELSE 87 + d
RECURSIVE Hex(_)
Hex(n) == IF n < 16 THEN << HexDigit(n) >> ELSE Hex(n \div 16) \o << HexDigit(n % 16) >>
Hex4(n) ==
  << HexDigit(n \div 4096), HexDigit((n \div 256) % 16),
     HexDigit((n \div 16) % 16), HexDigit(n % 16) >>
HexOf(hi, lo) == IF hi = 0 THEN Hex(lo) ELSE Hex(hi) \o Hex4(lo)

\* variant: the bits are rendered as an unsigned number
ToString16_unsigned(h) == HexOf(h[1], h[2])

\* a negative number is rendered as '-' and the digits of its magnitude
ToString16(h) ==
  IF h[1] >= Half \div 2
    THEN << Dash >> \o HexOf((Half - 1 - h[1] + (IF h[2] = 0 THEN 1 ELSE 0)) % Half,
                            (Half - h[2]) % Half)
    ELSE HexOf(h[1], h[2])

simpleHash(str) == ToString16(HashLoop(str, 1, << 0, 0 >>))

\* ---------------------------------------------------------- GET /snapshot
\* dataString is JSON.stringify(snapshot.data)
Snapshot(r, u, dataString) ==
  /\ Idle(r)
  /\ Set(r, [ Respond([ IdleReq EXCEPT !.kind = "snapshot", !.user = u ], 200)
               EXCEPT !.dataString = dataString,
                      !.version = simpleHash(dataString) ])
  /\ DbUnchanged /\ UNCHANGED << now, started >>

\* ------------------------------------------------- POST /api/notifications
\* u creates a notification for userId, or for u when the body names no user
PostNotification(u, userId) ==
  /\ lastNotificationId < MaxNotifications
  /\ LET targetUserId == IF userId = Undefined THEN u ELSE userId
         row == NotificationRow(lastNotificationId + 1, targetUserId,
                                "Reminder", "Exam tomorrow", "info")
     IN /\ NotificationConstraintsOk(row)
        /\ notifications' = notifications \cup { row }
  /\ lastNotificationId' = lastNotificationId + 1
  /\ UNCHANGED << exams, lastExamId, pending, now, req, started >>

\* ------------------------------------------ POST /resolve-change/:changeId
StartResolve(r, u, changeId, resolution, modifiedData) ==
  /\ Idle(r)
  /\ started < MaxRequests
  /\ started' = started + 1
  /\ Set(r, [ IdleReq EXCEPT !.kind = "resolve", !.user = u, !.changeId = changeId,
                             !.resolution = resolution,
                             !.modifiedData = modifiedData,
                             !.pc = "resolve_get" ])
  /\ DbUnchanged /\ UNCHANGED now

\* the change handed to processOfflineChange by accept and by modify
ResolveChange(q, row, data) ==
  [ isNull |-> FALSE, id |-> q.changeId, type |-> row.change_type,
    action |-> row.change_action, data |-> data ]

\* variant: everything but an explicit reject is applied
Reinvokes_unlessReject(resolution) == resolution # "reject"

\* the branch on req.body.resolution
Reinvokes(resolution) == resolution \in { "accept", "modify" }

ResolveGet(r) ==
  /\ req[r].pc = "resolve_get"
  /\ LET q == req[r]
         pendingChange == SelectPending(pending, q.changeId, q.user)
     IN Set(r, IF pendingChange = {} THEN Respond(q, 404)
               ELSE LET row == CHOOSE p \in pendingChange : TRUE
                        changeData == JSONParse(row.change_data)
                        found == [ q EXCEPT !.pendingChange = pendingChange,
                                            !.deviceId = row.device_id ]
                    IN IF ~ Reinvokes(q.resolution)
                         THEN [ found EXCEPT !.pc = "resolve_delete" ]
                       ELSE IF q.resolution = "modify"
                         THEN [ found EXCEPT !.change = ResolveChange(q, row, q.modifiedData),
                                             !.pc = "item" ]
                       ELSE [ found EXCEPT !.change = ResolveChange(q, row, changeData),
                                           !.pc = "item" ])
  /\ DbUnchanged /\ UNCHANGED << now, started >>

ResolveDelete(r) ==
  /\ req[r].pc = "resolve_delete"
  /\ pending' = DeletePending(pending, req[r].changeId)
  /\ Set(r, Respond(req[r], 200))
  /\ UNCHANGED << exams, lastExamId, notifications, lastNotificationId, now, started >>

\* ------------------------------------------ POST /api/exams/check-conflicts
\* one awaited query; the route has no authentication middleware
CheckConflicts(r, body, excludeId) ==
  /\ Idle(r)
  /\ LET q == [ IdleReq EXCEPT !.kind = "check", !.body = body,
                               !.excludeId = excludeId ]
     IN Set(r, IF body.date = "" \/ body.venue = "" \/ body.duration = 0
                 THEN Respond(q, 400)
               ELSE [ Respond(q, 200) EXCEPT !.conflicts = Detect(exams, body, excludeId) ])
  /\ DbUnchanged /\ UNCHANGED << now, started >>

\* ---------------------------------------------- GET /api/exams/conflicts/all
ConflictsAll(r) ==
  /\ Idle(r)
  /\ Set(r, Respond([ IdleReq EXCEPT !.kind = "report", !.report = DetectAll(exams) ],
                    200))
  /\ DbUnchanged /\ UNCHANGED << now, started >>

\* ---------------------------------------------------------- specifications
CreateSteps(r) ==
  \/ CreateTimeQuery(r)
  \/ CreateVenueQuery(r)
  \/ CreateStorePending(r)
  \/ CreateInsertExam(r)

\* Reconciliation and resolution, one request at a time: batches of creates
\* and the resolution of what they park.
Next ==
  \/ \E u \in Users, changes \in CreateBatches : StartSync(1, u, changes)
  \/ \E u \in Users, c \in ChangeIds, d \in Resolutions \ { "modify" } :
       StartResolve(1, u, c, d, UndefinedData)
  \/ \E u \in Users, c \in ChangeIds, m \in ModifiedDatas \cup { UndefinedData } :
       StartResolve(1, u, c, "modify", m)
  \/ CreateSteps(1)
  \/ ItemDispatchThrow(1)
  \/ SyncNotify(1)
  \/ ResolveGet(1)
  \/ ResolveDelete(1)

Spec == Init /\ [][Next]_vars

\* Batch dispatch, one request at a time: batches over every kind of change.
NextBatch ==
  \/ \E u \in Users, changes \in MixedBatches : StartSync(1, u, changes)
  \/ \E u \in Users : StartSyncNoArray(1, u)
  \/ CreateSteps(1)
  \/ ItemDispatchThrow(1)
  \/ UpdateGet(1)
  \/ UpdateRun(1)
  \/ DeleteGet(1)
  \/ DeleteRun(1)
  \/ SyncNotify(1)

SpecBatch == Init /\ [][NextBatch]_vars

\* Two concurrent /sync calls, each creating one exam: the calls interleave
\* at every awaited statement.
NextRace ==
  \/ \E r \in Reqs, u \in Users, c \in CreateChanges :
       req[r].pc = "idle" /\ StartSync(r, u, << c >>)
  \/ \E r \in Reqs : CreateSteps(r)
  \/ \E r \in Reqs : SyncNotify(r)

SpecRace == Init /\ [][NextRace]_vars

\* Dispatch of items whose type or action is not one the reconciler knows.
NextDispatch ==
  \/ \E u \in Users, changes \in DispatchBatches : StartSync(1, u, changes)
  \/ CreateSteps(1)
  \/ ItemDispatchThrow(1)
  \/ SyncNotify(1)

SpecDispatch == Init /\ [][NextDispatch]_vars

\* Notification items of a batch, over notifications of both users.
NotifyBatches == SeqsUpTo(NotificationChanges, MaxBatch)

NextNotify ==
  \/ \E u \in Users, userId \in Users \cup { Undefined } : PostNotification(u, userId)
  \/ \E u \in Users, changes \in NotifyBatches : StartSync(1, u, changes)
  \/ NotificationMarkRead(1)
  \/ NotificationDelete(1)
  \/ ItemDispatchThrow(1)
  \/ SyncNotify(1)

SpecNotify == Init /\ [][NextNotify]_vars

\* Direct creation next to /sync, for callers of every role.
NextDirect ==
  \/ \E u \in Actors, body \in DirectBodies : PostExam(1, u, body)
  \/ \E u \in Actors, changes \in DirectBatches : StartSync(1, u, changes)
  \/ CreateSteps(1)
  \/ SyncNotify(1)

SpecDirect == Init /\ [][NextDirect]_vars

\* The version of a snapshot: one call per behaviour.
NextHash ==
  \E u \in Users, dataString \in DataStrings :
    req[1].pc = "idle" /\ Snapshot(1, u, dataString)

SpecHash == Init /\ [][NextHash]_vars

\* The conflict routes over the tables the exams routes can leave behind.
ExamTable(rows) ==
  { ExamRow(i, rows[i].data, rows[i].status, 1) : i \in 1..Len(rows) }

InitDetect ==
  /\ \E rows \in DetectRowSeqs :
       /\ exams = ExamTable(rows)
       /\ lastExamId = Len(rows)
  /\ pending = {}
  /\ notifications = {}
  /\ lastNotificationId = 0
  /\ now = 0
  /\ req = [ r \in Reqs |-> IdleReq ]
  /\ started = 0

NextDetect ==
  \/ \E body \in CheckBodies, excludeId \in 0..MaxExams :
       CheckConflicts(1, body, excludeId)
  \/ ConflictsAll(1)
  \/ \E changes \in DetectBatches : StartSync(1, 1, changes)
  \/ CreateSteps(1)
  \/ SyncNotify(1)

SpecDetect == InitDetect /\ [][NextDetect]_vars

\* ================================================================== claims
Done(r, kind) == req[r].kind = kind /\ req[r].pc = "done"
Last(q) == q[Len(q)]
PayloadOf(q) == JSONParse((CHOOSE p \in q.pendingChange : TRUE).change_data)

\* C1 (as claimed): after a colliding exam.create was parked, a successful
\* Resolve(changeId, userId, accept) by its owner has committed exactly one new
\* booking that carries the pending record's payload and is owned by that user.
C1_AcceptCommitsBooking ==
  \A r \in Reqs :
    (Done(r, "resolve") /\ req[r].status = 200 /\ req[r].resolution = "accept")
      => /\ Len(req[r].result) = 1
         /\ req[r].result[1].action = "created"
         /\ \E e \in exams :
              /\ e.id = req[r].result[1].examId
              /\ e.created_by = req[r].user
              /\ e.time = PayloadOf(req[r]).time
              /\ e.venue = PayloadOf(req[r]).venue
              /\ e.duration = PayloadOf(req[r]).duration

\* C2: for an exam.create batch item, when the conflict check over the
\* same-date upcoming bookings is non-empty the step saves one pending record
\* (payload = candidate data plus the conflicts, owner = actor), commits no
\* booking and appends a pending_resolution entry to the successful list; when
\* it is empty the step commits one booking owned by the actor, appends a
\* created entry and saves no pending record.
C2_CreateItemOutcome ==
  [][ \A r \in Reqs :
        ( /\ req[r].kind = "sync"
          /\ req[r].pc \in { "create_store", "create_insert" }
          /\ req'[r] # req[r] )
        => LET q == req[r]
               d == q.change.data
               detected == ConflictList(TimeConflictRows(exams, d),
                                        VenueConflictRows(exams, d))
           IN /\ q.conflicts = detected
              /\ req'[r].failed = q.failed
              /\ Len(req'[r].successful) = Len(q.successful) + 1
              /\ IF Len(detected) > 0
                   THEN /\ exams' = exams
                        /\ \E p \in pending' :
                             /\ p.change_data = JSONStringify([ d EXCEPT !.conflicts = detected ])
                             /\ p.user_id = q.user
                             /\ pending' \ { p } \subseteq pending
                        /\ Last(req'[r].successful).action = "pending_resolution"
                   ELSE /\ pending' = pending
                        /\ \E e \in exams' :
                             /\ e \notin exams
                             /\ exams' = exams \cup { e }
                             /\ e.created_by = q.user
                             /\ e.date = d.date /\ e.time = d.time
                             /\ e.venue = d.venue /\ e.duration = d.duration
                             /\ Last(req'[r].successful).examId = e.id
                        /\ Last(req'[r].successful).action = "created"
    ]_vars

\* C2 witness: one batch has committed one create and parked another.
C2_Witness ==
  \E r \in Reqs :
    /\ req[r].kind = "sync"
    /\ Len(req[r].successful) = 2
    /\ req[r].successful[1].action = "created"
    /\ req[r].successful[2].action = "pending_resolution"
    /\ \E p \in pending : p.user_id = req[r].user
    /\ Cardinality(exams) = 1

\* C3 (as claimed): an exam.create is parked exactly when Detect(candidate,
\* same-date upcoming bookings) of the conflict detector is non-empty.
C3_ParkedIffDetect ==
  \A r \in Reqs :
    /\ req[r].pc = "create_store"
         => Detect(exams, req[r].change.data, Undefined) # << >>
    /\ req[r].pc = "create_insert"
         => Detect(exams, req[r].change.data, Undefined) = << >>

\* C4 (as claimed): when a batch call has ended, every item whose processing
\* raised an error has its own failed entry carrying the message, and every
\* item of the batch has been processed and has an entry.
C4_FaultIsolated ==
  \A r \in Reqs :
    (Done(r, "sync") /\ req[r].status # 400)
      => /\ req[r].processed = Len(req[r].changes)
         /\ Len(req[r].successful) + Len(req[r].failed) = Len(req[r].changes)
         /\ \A i \in 1..Len(req[r].changes) :
              DispatchError(req[r].changes[i]) # << >>
                => \E j \in 1..Len(req[r].failed) :
                     /\ req[r].failed[j].change = req[r].changes[i]
                     /\ req[r].failed[j].error = DispatchError(req[r].changes[i])

\* C5 (as claimed): a batch call whose changes argument is an array ends with
\* HTTP 200, whatever the number of failed items.
C5_ArrayBatchReturns200 ==
  \A r \in Reqs :
    (Done(r, "sync") /\ req[r].status # 400) => req[r].status = 200

\* C6: after Resolve returned success, whatever the decision, the pending
\* store holds no record with that change id.
C6_ResolvedRecordGone ==
  \A r \in Reqs :
    (Done(r, "resolve") /\ req[r].status = 200)
      => ~ \E p \in pending : p.change_id = req[r].changeId

\* C6 witness: an accept of a stored record has returned success.
C6_Witness ==
  \E r \in Reqs :
    /\ Done(r, "resolve") /\ req[r].status = 200
    /\ req[r].resolution = "accept"
    /\ req[r].pendingChange # {}

\* C7: every step of a Resolve whose decision is neither accept nor modify
\* leaves the booking and notification tables unchanged and adds no pending
\* record; the only rows it removes carry the resolved change id.
C7_RejectOnlyDeletes ==
  [][ \A r \in Reqs :
        ( /\ req[r].kind = "resolve"
          /\ req[r].resolution \notin { "accept", "modify" }
          /\ req[r].pc \notin { "idle", "done" } )
        => /\ exams' = exams /\ lastExamId' = lastExamId
           /\ notifications' = notifications
           /\ pending' \subseteq pending
           /\ \A p \in pending \ pending' : p.change_id = req[r].changeId
    ]_vars

\* C7 witness: an unrecognized decision has removed the caller's record.
C7_Witness ==
  \E r \in Reqs :
    /\ Done(r, "resolve") /\ req[r].status = 200
    /\ req[r].resolution = "keep"
    /\ req[r].pendingChange # {}
    /\ req[r].pendingChange \cap pending = {}
    /\ exams # {}

\* C8: the lookup of Resolve answers NotFound exactly when no pending record
\* has that id and that owner, and a NotFound answer changes no table.
C8_NotFoundChangesNothing ==
  [][ \A r \in Reqs :
        (req[r].pc = "resolve_get" /\ req'[r] # req[r])
        => /\ (req'[r].status = 404)
                <=> ~ \E p \in pending : /\ p.change_id = req[r].changeId
                                         /\ p.user_id = req[r].user
           /\ (req'[r].status = 404)
                => /\ req'[r].pc = "done"
                   /\ exams' = exams /\ pending' = pending
                   /\ notifications' = notifications
    ]_vars

\* C8 witness: NotFound was answered for a record owned by another user, and
\* that record is still stored.
C8_Witness ==
  \E r \in Reqs :
    /\ Done(r, "resolve") /\ req[r].status = 404
    /\ \E p \in pending : p.change_id = req[r].changeId /\ p.user_id # req[r].user

\* C9 (as claimed): an exam.update or exam.delete item fails with a not-found
\* error when the booking is absent, fails with a permission error (booking
\* unchanged) when the actor is neither owner nor admin, and otherwise goes on
\* to overwrite or remove the booking.
C9_OwnershipRule ==
  [][ \A r \in Reqs :
        ( /\ req[r].kind = "sync" /\ req[r].pc = "item"
          /\ DispatchError(req[r].change) = << >>
          /\ req[r].change.type = "exam"
          /\ req[r].change.action \in { "update", "delete" }
          /\ req'[r] # req[r] )
        => LET q == req[r]
               target == { e \in exams : e.id = q.change.data.id }
               failedNow == Len(req'[r].failed) = Len(q.failed) + 1
           IN IF target = {}
                THEN failedNow /\ Last(req'[r].failed).error[1] = "Exam not found"
              ELSE IF \E e \in target : e.created_by # q.user /\ Role(q.user) # "admin"
                THEN /\ failedNow
                     /\ Last(req'[r].failed).error[1] \in
                          { "Permission denied: can only edit own exams",
                            "Permission denied: can only delete own exams" }
                     /\ exams' = exams
              ELSE req'[r].pc \in { "update_run", "delete_run" }
    ]_vars

\* the collision rule of the reconciler itself, between two stored bookings
Collide(e1, e2) ==
  /\ e1.id # e2.id
  /\ e1.date = e2.date
  /\ e1.status = "upcoming" /\ e2.status = "upcoming"
  /\ SqlTimeClause(e1, e2)

\* C10: the write of exam.create is not tied to its conflict read: a create
\* whose check found nothing commits its booking and parks nothing, also when
\* a colliding booking was committed by a concurrent request after the check.
C10_WriteIgnoresLaterBookings ==
  [][ \A r \in Reqs :
        (req[r].pc = "create_insert" /\ req'[r] # req[r])
        => /\ pending' = pending
           /\ \E e \in exams' \ exams :
                /\ exams' = exams \cup { e }
                /\ e.created_by = req[r].user
                /\ e.time = req[r].change.data.time
                /\ e.venue = req[r].change.data.venue
    ]_vars

\* C10 witness: two concurrent creates have both committed; the table holds
\* two colliding upcoming bookings and nothing was parked.
C10_Witness ==
  /\ pending = {}
  /\ \A r \in Reqs :
       /\ Done(r, "sync")
       /\ Len(req[r].changes) = 1
       /\ Len(req[r].successful) = 1
       /\ req[r].successful[1].action = "created"
  /\ \E e1 \in exams, e2 \in exams :
       /\ Collide(e1, e2)
       /\ e1.venue = e2.venue
       /\ Detect(exams, [ DataA EXCEPT !.time = e1.time, !.venue = e1.venue,
                                       !.duration = e1.duration ], e1.id) # << >>

\* C11: a step of a request made by one user leaves what GET /pending-changes
\* returns to every other user unchanged, in membership and in content.
C11_NoCrossUserEffect ==
  [][ \A r \in Reqs, a \in Users :
        (req'[r] # req[r] /\ req'[r].user # a)
          => ListPendingChanges(pending', a) = ListPendingChanges(pending, a) ]_vars
\* C12: when a /sync call parks the item whose change id is c, the lookup of
\* resolve-change for (c, the caller) finds the parked record of that item.
C12_ParkedUnderCallerId ==
  [][ \A r \in Reqs :
        (req[r].kind = "sync" /\ req[r].pc = "create_store" /\ req'[r] # req[r])
          => \E p \in SelectPending(pending', req[r].change.id, req[r].user) :
               JSONParse(p.change_data) = PendingChangeData(req[r]).data ]_vars
\* C13: storing a pending change is an upsert on the change id: after any
\* store, also one under an id the table already holds, exactly one record
\* has that id and it carries the payload of the latest store.
C13_SaveIsUpsert ==
  [][ \A r \in Reqs :
        (req[r].pc = "create_store" /\ req'[r] # req[r])
          => { p \in pending' : p.change_id = req[r].pendingId }
               = { PendingRow(PendingChangeData(req[r])) } ]_vars

\* a modify re-parked its candidate under the id of the record it had read:
\* the table holds one record with that id, with the new payload
C13_Witness ==
  \E r \in Reqs :
    /\ req[r].kind = "resolve" /\ req[r].pc = "resolve_delete"
    /\ Len(req[r].result) = 1 /\ req[r].result[1].action = "pending_resolution"
    /\ \E old \in req[r].pendingChange, new \in pending :
         /\ new.change_id = old.change_id
         /\ new.change_data # old.change_data
         /\ Cardinality({ p \in pending : p.change_id = old.change_id }) = 1
\* the half-open interval rule, starts and durations in minutes
Overlaps(startA, durationA, startB, durationB) ==
  startA < startB + durationB /\ startB < startA + durationA

\* the entries of a check-conflicts response that name the row e
EntriesFor(q, e) == { i \in 1..Len(q.conflicts) : q.conflicts[i].id = e.id }

\* C14: for every row the conflict check compares the candidate with, the
\* response has one entry "both"/error when times overlap and venues match,
\* one entry "venue_conflict"/warning when only the venues match, one entry
\* "time_overlap"/warning when only the times overlap, and no entry otherwise.
C14_DetectClassification ==
  \A r \in Reqs :
    (Done(r, "check") /\ req[r].status = 200)
      => \A e \in PotentialConflicts(exams, req[r].body, req[r].excludeId) :
           LET q == req[r]
               t == Overlaps(q.body.time, q.body.duration, e.time, e.duration)
               v == e.venue = q.body.venue
           IN IF ~ t /\ ~ v THEN EntriesFor(q, e) = {}
              ELSE /\ Cardinality(EntriesFor(q, e)) = 1
                   /\ \A i \in EntriesFor(q, e) :
                        /\ q.conflicts[i].conflictType =
                             (IF t /\ v THEN "both"
                              ELSE IF v THEN "venue_conflict" ELSE "time_overlap")
                        /\ q.conflicts[i].severity =
                             (IF t /\ v THEN "error" ELSE "warning")

\* one response with a "both" entry and a "venue_conflict" entry
C14_Witness ==
  \E r \in Reqs :
    /\ Done(r, "check") /\ req[r].status = 200
    /\ \E i, j \in 1..Len(req[r].conflicts) :
         /\ req[r].conflicts[i].conflictType = "both"
         /\ req[r].conflicts[j].conflictType = "venue_conflict"

\* C15: the conflict check reports a time overlap with a row exactly when
\* the half-open rule holds of the two intervals, the test gives the same
\* answer with the two intervals exchanged, and intervals that only touch
\* are not reported as overlapping.
C15_TimeOverlapHalfOpen ==
  \A r \in Reqs :
    (Done(r, "check") /\ req[r].status = 200)
      => \A e \in PotentialConflicts(exams, req[r].body, req[r].excludeId) :
           LET q == req[r]
               examStart == JsDate(q.body.time)
               examEnd == examStart + q.body.duration * 60000
               existingStart == JsDate(e.time)
               existingEnd == existingStart + e.duration * 60000
               reported == \E i \in EntriesFor(q, e) :
                             q.conflicts[i].conflictType \in { "both", "time_overlap" }
           IN /\ reported <=> Overlaps(q.body.time, q.body.duration, e.time, e.duration)
              /\ reported <=> timeOverlap(existingStart, existingEnd, examStart, examEnd)
              /\ (q.body.time + q.body.duration = e.time
                    \/ e.time + e.duration = q.body.time) => ~ reported

\* a candidate that ends when a row of its venue starts: the row is reported
\* for its venue only
C15_Witness ==
  \E r \in Reqs :
    /\ Done(r, "check") /\ req[r].status = 200
    /\ \E e \in exams, i \in 1..Len(req[r].conflicts) :
         /\ req[r].conflicts[i].id = e.id
         /\ req[r].body.time + req[r].body.duration = e.time
         /\ req[r].conflicts[i].conflictType = "venue_conflict"
\* the pairs of upcoming rows on one date
UpcomingPairs ==
  { pair \in exams \X exams :
      /\ pair[1].id < pair[2].id /\ pair[1].date = pair[2].date
      /\ pair[1].status = "upcoming" /\ pair[2].status = "upcoming" }

\* the entries of a conflicts/all response that name the rows a and b
ReportFor(q, a, b) == { c \in q.report : c.exams = { a.id, b.id } }

\* C16 as stated: the system-wide report has a "both"/error entry for every
\* pair of upcoming rows on one date whose venues match, whether or not
\* their times overlap, a "time_overlap" entry for the other pairs whose
\* times overlap, and no entry for the rest.
C16_VenueMatchIsBoth ==
  \A r \in Reqs :
    Done(r, "report")
      => \A pair \in UpcomingPairs :
           LET a == pair[1]
               b == pair[2]
               entries == ReportFor(req[r], a, b)
           IN IF a.venue = b.venue
                THEN \E c \in entries : c.conflictType = "both" /\ c.severity = "error"
              ELSE IF Overlaps(a.time, a.duration, b.time, b.duration)
                THEN \E c \in entries : c.conflictType = "time_overlap"
              ELSE entries = {}

\* C16, amended: the report has an entry exactly for the pairs of upcoming
\* rows on one date whose times overlap: "both"/error when their venues
\* match, "time_overlap"/warning when they differ; a pair whose times do
\* not overlap is not reported, also when the venues match.
C16_ReportRule ==
  \A r \in Reqs :
    Done(r, "report")
      => /\ \A pair \in UpcomingPairs :
              LET a == pair[1]
                  b == pair[2]
                  entries == ReportFor(req[r], a, b)
              IN IF Overlaps(a.time, a.duration, b.time, b.duration)
                   THEN /\ Cardinality(entries) = 1
                        /\ \A c \in entries :
                             /\ c.conflictType =
                                  (IF a.venue = b.venue THEN "both" ELSE "time_overlap")
                             /\ c.severity =
                                  (IF a.venue = b.venue THEN "error" ELSE "warning")
                 ELSE entries = {}
         /\ \A c \in req[r].report :
              \E pair \in UpcomingPairs : c.exams = { pair[1].id, pair[2].id }

\* a report over two upcoming rows of one date and one venue whose times do
\* not overlap: the pair is not in it
C16_Witness ==
  \E r \in Reqs :
    /\ Done(r, "report")
    /\ req[r].report = {}
    /\ \E pair \in UpcomingPairs :
         /\ pair[1].venue = pair[2].venue
         /\ ~ Overlaps(pair[1].time, pair[1].duration, pair[2].time, pair[2].duration)
\* C17: a conflict check that passes a row's id as excludeId never reports
\* that row.
C17_NoSelfConflict ==
  \A r \in Reqs :
    (Done(r, "check") /\ req[r].status = 200 /\ req[r].excludeId # Undefined)
      => \A i \in 1..Len(req[r].conflicts) :
           req[r].conflicts[i].id # req[r].excludeId

\* an upcoming row was checked against the table under its own id, next to
\* another row that is reported
C17_Witness ==
  \E r \in Reqs :
    /\ Done(r, "check") /\ req[r].status = 200
    /\ \E e \in exams :
         /\ e.id = req[r].excludeId /\ e.status = "upcoming"
         /\ e = ExamRow(e.id, req[r].body, "upcoming", e.created_by)
    /\ Len(req[r].conflicts) = 1
\* C18: a row whose status is not 'upcoming' is in no entry of a conflict
\* check, in no entry of the system-wide report, and in no conflict list
\* for which the reconciler parks a create.
C18_OnlyUpcoming ==
  LET upcoming == { e.id : e \in AllExams(exams) }
  IN \A r \in Reqs :
       /\ (Done(r, "check") /\ req[r].status = 200)
            => \A i \in 1..Len(req[r].conflicts) : req[r].conflicts[i].id \in upcoming
       /\ Done(r, "report")
            => \A c \in req[r].report : c.exams \subseteq upcoming
       /\ req[r].pc = "create_store"
            => \A i \in 1..Len(req[r].conflicts) :
                 req[r].conflicts[i].conflictingExams \subseteq upcoming

\* a create was committed although a row that is not upcoming satisfies the
\* reconciler's time clause with it
C18_Witness ==
  \E r \in Reqs :
    /\ req[r].kind = "sync"
    /\ Len(req[r].successful) = 1 /\ req[r].successful[1].action = "created"
    /\ \E e \in exams, n \in exams :
         /\ n.id = req[r].successful[1].examId
         /\ e.status # "upcoming" /\ e.date = n.date /\ e.venue = n.venue
         /\ SqlTimeClause(e, n)
\* the row a result of action "created" names
CreatedRow(res) == { e \in exams : e.id = res.examId }

\* C19: a batch is applied item by item in the order submitted.  While no
\* item has failed, the k-th result is the result of the k-th item: the
\* items before the one in progress are exactly those with a result, a
\* "created" result names the row written from its item, later items get
\* later rows, and an item that collides (by the reconciler's rule) with
\* the row an earlier item of the batch created is parked with that row in
\* its conflicts.
C19_BatchInOrder ==
  \A r \in Reqs :
    (req[r].kind = "sync" /\ req[r].failed = <<>>)
      => LET q == req[r]
             n == Len(q.successful)
         IN /\ q.processed = n
            /\ n <= Len(q.changes)
            /\ q.pc \notin { "notify", "done" } => q.idx = n + 1
            /\ \A k \in 1..n :
                 q.successful[k].action = "created"
                   => CreatedRow(q.successful[k])
                        = { ExamRow(q.successful[k].examId, q.changes[k].data,
                                    "upcoming", q.user) }
            /\ \A j \in 1..n, k \in 1..n :
                 (j < k /\ q.successful[j].action = "created")
                   => /\ q.successful[k].action = "created"
                           => q.successful[j].examId < q.successful[k].examId
                      /\ \A e \in CreatedRow(q.successful[j]) :
                           (e.date = q.changes[k].data.date
                              /\ SqlTimeClause(e, q.changes[k].data))
                             => /\ q.successful[k].action = "pending_resolution"
                                /\ \E i \in 1..Len(q.successful[k].conflicts) :
                                     e.id \in q.successful[k].conflicts[i].conflictingExams

\* the first item of the first batch was committed and the second item was
\* parked because of it
C19_Witness ==
  \E r \in Reqs :
    /\ req[r].kind = "sync" /\ started = 1
    /\ Len(req[r].successful) = 2
    /\ req[r].successful[1].action = "created"
    /\ req[r].successful[2].action = "pending_resolution"
    /\ req[r].successful[1].examId
         \in req[r].successful[2].conflicts[1].conflictingExams
\* no case of processOfflineChange, processExamChange or
\* processNotificationChange is written for the item
UnknownItem(c) ==
  /\ ~ c.isNull
  /\ \/ c.type \notin { "exam", "notification" }
     \/ c.type = "exam" /\ c.action \notin { "create", "update", "delete" }
     \/ c.type = "notification" /\ c.action \notin { "mark_read", "delete" }

\* C20: the step that handles a batch item of unknown type or action adds
\* one entry to failed, with the item's change id and an unknown-type or
\* unknown-action error that carries the unrecognised value, leaves exams,
\* notifications and pending records as they were, and goes on to the next
\* item of the batch (or to the end of the batch after the last item).
C20_UnknownItemFails ==
  [][ \A r \in Reqs :
        (req[r].kind = "sync" /\ req[r].pc = "item" /\ UnknownItem(req[r].change)
           /\ req'[r] # req[r])
          => LET q == req[r]
                 c == q.change
             IN /\ exams' = exams /\ notifications' = notifications
                /\ pending' = pending
                /\ req'[r].successful = q.successful
                /\ Len(req'[r].failed) = Len(q.failed) + 1
                /\ SubSeq(req'[r].failed, 1, Len(q.failed)) = q.failed
                /\ Last(req'[r].failed).changeId = c.id
                /\ Last(req'[r].failed).error
                     = (IF c.type \notin { "exam", "notification" }
                          THEN << "Unknown change type", c.type >>
                        ELSE IF c.type = "exam"
                          THEN << "Unknown exam action", c.action >>
                        ELSE << "Unknown notification action", c.action >>)
                /\ IF q.idx < Len(q.changes)
                     THEN /\ req'[r].pc = "item"
                          /\ req'[r].idx = q.idx + 1
                          /\ req'[r].change = q.changes[q.idx + 1]
                     ELSE req'[r].pc = "notify" ]_vars

\* an item of unknown action failed and the create after it was committed
C20_Witness ==
  \E r \in Reqs :
    /\ req[r].kind = "sync"
    /\ Len(req[r].changes) = 2 /\ UnknownItem(req[r].changes[1])
    /\ Len(req[r].failed) = 1
    /\ req[r].failed[1].error = << "Unknown exam action", "archive" >>
    /\ Len(req[r].successful) = 1 /\ req[r].successful[1].action = "created"
\* the notifications that do not belong to user a
NotificationsOfOthers(tbl, a) == { n \in tbl : n.user_id # a }

\* C21: the step that handles a notification item of a batch leaves every
\* notification of another user as it was, also when the item names the id
\* of such a notification.
C21_NotificationsScoped ==
  [][ \A r \in Reqs :
        (req[r].kind = "sync" /\ req[r].pc = "item" /\ ~ req[r].change.isNull
           /\ req[r].change.type = "notification" /\ req'[r] # req[r])
          => NotificationsOfOthers(notifications', req[r].user)
               = NotificationsOfOthers(notifications, req[r].user) ]_vars

\* a batch reported "deleted" for the id of another user's notification,
\* and that notification is still in the table
C21_Witness ==
  \E r \in Reqs :
    /\ req[r].kind = "sync"
    /\ \E k \in 1..Len(req[r].successful), n \in notifications :
         /\ req[r].successful[k].action = "deleted"
         /\ n.id = req[r].successful[k].changeId
         /\ n.user_id # req[r].user
\* h = 0; h = (h * 31 + b) mod 2^32, as the pair of the halves of h
RECURSIVE RollingHash(_, _)
RollingHash(str, n) ==
  IF n = 0 THEN << 0, 0 >>
  ELSE LET h == RollingHash(str, n - 1)
           lo == h[2] * 31 + str[n]
       IN << (h[1] * 31 + lo \div Half) % Half, lo % Half >>

\* C22 as stated: the version of a snapshot is the hexadecimal form of the
\* rolling hash taken as a value in [0, 2^32); it has no sign.
C22_UnsignedHex ==
  \A r \in Reqs :
    Done(r, "snapshot")
      => LET h == RollingHash(req[r].dataString, Len(req[r].dataString))
         IN /\ req[r].version = HexOf(h[1], h[2])
            /\ \A i \in 1..Len(req[r].version) : req[r].version[i] # Dash

\* C22, amended: the version is the rolling hash taken as a signed 32-bit
\* value: the hexadecimal digits of h when h < 2^31, and '-' followed by
\* the hexadecimal digits of 2^32 - h when h >= 2^31.
C22_SignedHex ==
  \A r \in Reqs :
    Done(r, "snapshot")
      => LET h == RollingHash(req[r].dataString, Len(req[r].dataString))
             twoTo32MinusH ==
               << (Half - 1 - h[1] + (IF h[2] = 0 THEN 1 ELSE 0)) % Half,
                  (Half - h[2]) % Half >>
         IN req[r].version =
              (IF h[1] < 32768 THEN HexOf(h[1], h[2])
               ELSE << Dash >> \o HexOf(twoTo32MinusH[1], twoTo32MinusH[2]))

\* a snapshot whose hash has its top bit set
C22_Witness ==
  \E r \in Reqs :
    /\ Done(r, "snapshot")
    /\ RollingHash(req[r].dataString, Len(req[r].dataString))[1] >= 32768
    /\ Head(req[r].version) = Dash
\* C23: a POST /api/exams whose candidate collides with a booking of the
\* table (the conflict check reports an entry for it) is answered 409 and
\* inserts nothing.
C23_DirectCreateRejectsCollision ==
  [][ \A r \in Reqs :
        (req'[r] # req[r] /\ req'[r].kind = "post_exam"
           /\ validateExamData(req'[r].body)
           /\ Detect(exams, req'[r].body, Undefined) # << >>)
          => (req'[r].status = 409 /\ exams' = exams) ]_vars

\* C24: every row a step adds to the exams table is created by a lecturer
\* or an admin.
C24_OnlyAuthorizedCreate ==
  [][ \A e \in exams' \ exams : Role(e.created_by) \in { "lecturer", "admin" } ]_vars
\* C25: no step of a resolve-change request adds a pending record, and the
\* step that answers 200 leaves the caller with fewer pending records than
\* before it; so every successful resolution shrinks the caller's store.
C25_ResolveShrinksPending ==
  [][ \A r \in Reqs :
        (req[r].kind = "resolve" /\ req'[r] # req[r])
          => /\ pending' \subseteq pending
             /\ (req'[r].pc = "done" /\ req'[r].status = 200)
                  => Cardinality(ListPendingChanges(pending', req[r].user))
                       < Cardinality(ListPendingChanges(pending, req[r].user)) ]_vars
\* the k-th smallest member of a set of indices
Nth(F, k) == CHOOSE i \in F : Cardinality({ j \in F : j < i }) = k - 1

Parked(q) == { k \in 1..Len(q.successful) : q.successful[k].action = "pending_resolution" }

\* C27: when the loop over the batch has ended and at least one item was
\* parked, the conflicts list of the result has an entry for every parked
\* item and summary.conflicts counts them.
C27_ConflictsListed ==
  \A r \in Reqs :
    (req[r].kind = "sync" /\ req[r].pc = "notify" /\ Parked(req[r]) # {})
      => /\ Len(req[r].conflictsOut) = Cardinality(Parked(req[r]))
         /\ req[r].nConflicts = Cardinality(Parked(req[r]))

\* equality of two ids of any kind (a change id, an exam id, an absent id)
SameId(a, b) == ToString(a) = ToString(b)

\* C28: every entry of the result carries the id of its change: with no
\* failed item the k-th successful entry has the id of the k-th change, and
\* a failed entry has the id of the change it holds.
C28_ResultCarriesChangeId ==
  \A r \in Reqs :
    req[r].kind = "sync"
      => /\ \A k \in 1..Len(req[r].failed) :
              SameId(req[r].failed[k].changeId, req[r].failed[k].change.id)
         /\ req[r].failed = << >>
              => \A k \in 1..Len(req[r].successful) :
                   SameId(req[r].successful[k].changeId, req[r].changes[k].id)
\* C29: the step of a /sync call that parks an item adds one pending record
\* and removes none, so the store holds one record for every item reported
\* pending_resolution and not yet resolved.
C29_ParkedChangeKept ==
  [][ \A r \in Reqs :
        (req[r].kind = "sync" /\ req[r].pc = "create_store" /\ req'[r] # req[r])
          => /\ pending \subseteq pending'
             /\ Cardinality(pending') = Cardinality(pending) + 1 ]_vars
\* Two concurrent resolve-change calls for one parked change: the calls
\* interleave at every awaited statement.  The store starts as the batch
\* [create DataA, create DataB] of user 1 leaves it: DataA booked, DataB parked.
ParkedConflicts ==
  ConflictList(TimeConflictRows({ ExamRow(1, DataA, "upcoming", 1) }, DataB),
               VenueConflictRows({ ExamRow(1, DataA, "upcoming", 1) }, DataB))

ParkedRecord ==
  PendingRow([ id |-> GeneratedId(0), type |-> "exam", action |-> "create",
               data |-> [ DataB EXCEPT !.conflicts = ParkedConflicts ],
               userId |-> 1, deviceId |-> "unknown", created_at |-> 0 ])

InitResolveRace ==
  /\ exams = { ExamRow(1, DataA, "upcoming", 1) }
  /\ lastExamId = 1
  /\ pending = { ParkedRecord }
  /\ notifications = {}
  /\ lastNotificationId = 0
  /\ now = 0
  /\ req = [ r \in Reqs |-> IdleReq ]
  /\ started = 0

NextResolveRace ==
  \/ \E r \in Reqs, u \in Users, d \in Resolutions \ { "modify" } :
       req[r].pc = "idle" /\ StartResolve(r, u, GeneratedId(0), d, UndefinedData)
  \/ \E r \in Reqs, u \in Users, m \in ModifiedDatas :
       req[r].pc = "idle" /\ StartResolve(r, u, GeneratedId(0), "modify", m)
  \/ \E r \in Reqs : ResolveGet(r)
  \/ \E r \in Reqs : CreateSteps(r)
  \/ \E r \in Reqs : ResolveDelete(r)

SpecResolveRace == InitResolveRace /\ [][NextResolveRace]_vars

\* the store the resolve race starts from is one a /sync call leaves behind
ParkedStoreReached ==
  /\ exams = { ExamRow(1, DataA, "upcoming", 1) }
  /\ pending = { ParkedRecord }

\* the resolve calls for the parked change whose re-invoked create booked a room
Applied ==
  { r \in Reqs : /\ req[r].kind = "resolve"
                 /\ req[r].changeId = GeneratedId(0)
                 /\ req[r].result # << >>
                 /\ req[r].result[1].action = "created" }

\* C30: over every interleaving of two resolve-change calls for the same
\* change id, at most one of them applies the parked change.
C30_AppliedAtMostOnce == Cardinality(Applied) <= 1
====
